---- MODULE Spec2Model ----
(***************************************************************************)
(* XmlReader (xml-reader.c): a cursor that walks a libxml2 document tree   *)
(* by entering and leaving named elements.                                 *)
(*                                                                         *)
(* The private structure XmlReaderPrivate is the record `priv`.  Every     *)
(* public function is an operator from the structure (and the call's       *)
(* arguments) to the structure it leaves behind and the value it returns,  *)
(* and an action that applies it.  Pointers are node numbers, NULL is 0.   *)
(***************************************************************************)
EXTENDS Integers, Sequences, FiniteSets, TLC

(***************************************************************************)
(* Bounds of the model.                                                    *)
(***************************************************************************)
\* read_end_element may take depth below zero (it has no floor); the model
\* stops issuing normal-path leaves once depth has fallen this far below 0.
MaxUnderflow == 2
\* read_attribute_pos is called with index_ in -1 .. MaxIndex.
MaxIndex == 2

(***************************************************************************)
(* C values.                                                               *)
(***************************************************************************)
NULL == 0
\* a NULL char pointer (strings and integers are kept apart)
NoStr == "(null)"
\* the initial value of last_error and the error kind of a failed enter
NoError == "0"
XML_READER_ERROR_UNKNOWN_NODE == "XML_READER_ERROR_UNKNOWN_NODE"

(***************************************************************************)
(* The documents xmlReadMemory can return, as libxml2 lays them out: the   *)
(* xmlDoc is itself a node (type XML_DOCUMENT_NODE, no name) whose         *)
(* children are the top-level nodes, and the parent of a top-level node is *)
(* the xmlDoc.  Blank text between elements is dropped by                  *)
(* XML_PARSE_NOBLANKS.                                                     *)
(*                                                                         *)
(* DocA:                                                                   *)
(*   <book id="7" lang="en">                                               *)
(*     <author>Jane</author> <title/>                                      *)
(*     <chapter n="1">intro<note>deep</note><para x:id="p1" y:id="p2"/>    *)
(*     </chapter>                                                          *)
(*     <author>Joe</author> <note>top</note>                               *)
(*   </book>                                                               *)
(* DocB:                                                                   *)
(*   <node role="admin" dir="rtl">payload<book/></node>                    *)
(* The prefixes x and y of DocA are bound to two namespaces, so <para> has  *)
(* two attributes whose local name is "id".                                *)
(***************************************************************************)
DocA == 1
DocB == 15

Elem(name, parent, children, next, properties) ==
  [type |-> "XML_ELEMENT_NODE", name |-> name, parent |-> parent,
   children |-> children, next |-> next, properties |-> properties,
   content |-> NoStr]

Text(content, parent, next) ==
  [type |-> "XML_TEXT_NODE", name |-> "text", parent |-> parent,
   children |-> NULL, next |-> next, properties |-> NULL,
   content |-> content]

Doc(children) ==
  [type |-> "XML_DOCUMENT_NODE", name |-> NoStr, parent |-> NULL,
   children |-> children, next |-> NULL, properties |-> NULL,
   content |-> NoStr]

Tree ==
  << Doc(2),                              \*  1  DocA
     Elem("book", 1, 3, NULL, 1),         \*  2  <book id lang>
     Elem("author", 2, 4, 5, NULL),       \*  3    <author>
     Text("Jane", 3, NULL),               \*  4      Jane
     Elem("title", 2, NULL, 6, NULL),     \*  5    <title/>
     Elem("chapter", 2, 7, 11, 3),        \*  6    <chapter n>
     Text("intro", 6, 8),                 \*  7      intro
     Elem("note", 6, 9, 10, NULL),        \*  8      <note>
     Text("deep", 8, NULL),               \*  9        deep
     Elem("para", 6, NULL, NULL, 4),      \* 10      <para x:id y:id/>
     Elem("author", 2, 12, 13, NULL),     \* 11    <author>
     Text("Joe", 11, NULL),               \* 12      Joe
     Elem("note", 2, 14, NULL, NULL),     \* 13    <note>
     Text("top", 13, NULL),               \* 14      top
     Doc(16),                             \* 15  DocB
     Elem("node", 15, 17, NULL, 6),       \* 16  <node role dir>
     Text("payload", 16, 18),             \* 17    payload
     Elem("book", 16, NULL, NULL, NULL)   \* 18    <book/>
  >>

\* xmlAttr: name is the local name, value what its text children spell
Attr ==
  << [name |-> "id",   value |-> "7",     next |-> 2],      \* 1  book id
     [name |-> "lang", value |-> "en",    next |-> NULL],   \* 2  book lang
     [name |-> "n",    value |-> "1",     next |-> NULL],   \* 3  chapter n
     [name |-> "id",   value |-> "p1",    next |-> 5],      \* 4  para x:id
     [name |-> "id",   value |-> "p2",    next |-> NULL],   \* 5  para y:id
     [name |-> "role", value |-> "admin", next |-> 7],      \* 6  node role
     [name |-> "dir",  value |-> "rtl",   next |-> NULL]    \* 7  node dir
  >>

Documents == {DocA, DocB}

\* the arguments the callers pass
ElementNames ==
  {"book", "author", "title", "chapter", "note", "para", "node", "text",
   "missing"}
AttributeNames == {"id", "lang", "n", "role", "dir", "missing"}
Indexes == (-1) .. MaxIndex

\* current_doc->xmlRootNode (libxml2: #define xmlRootNode children)
xmlRootNode(doc) == Tree[doc].children

xmlNodeIsText(node) == Tree[node].type = "XML_TEXT_NODE"

xmlNodeGetContent(node) == Tree[node].content

RECURSIVE xmlHasProp(_, _)
xmlHasProp(attr, name) ==
  IF attr = NULL THEN NULL
  ELSE IF Attr[attr].name = name THEN attr
  ELSE xmlHasProp(Attr[attr].next, name)

\* xmlGetProp looks the attribute up again, by name, among node's properties
xmlGetProp(node, name) ==
  LET prop == xmlHasProp(Tree[node].properties, name)
  IN  IF prop = NULL THEN NoStr ELSE Attr[prop].value

VARIABLES priv, call, before, open, closed

vars == <<priv, call, before, open, closed>>

Result(p, r) == [priv |-> p, ret |-> r]

(***************************************************************************)
(* xml_reader_init: the instance structure is zero-filled by GObject, then *)
(* the listed fields are set.                                              *)
(***************************************************************************)
xml_reader_init ==
  [error_state |-> FALSE, last_error |-> NoError, depth |-> 0,
   current_doc |-> NULL, parent |-> NULL, node_cursor |-> NULL,
   attr_cursor |-> NULL, cursor_value |-> NoStr, attr_value |-> NoStr]

\* mutant: the cached attribute value is not released
xml_reader_clear_KeepsAttribute(p) ==
  [p EXCEPT !.cursor_value = NoStr]

\* frees both cached strings and the document; current_doc is left as it is
\* (the caller overwrites it)
xml_reader_clear(p) ==
  [p EXCEPT !.cursor_value = NoStr, !.attr_value = NoStr]

\* what xmlReadMemory makes of a buffer: a document, or NULL
Buffers == {"A", "B", "garbage"}
xmlReadMemory(buffer) ==
  CASE buffer = "A" -> DocA
    [] buffer = "B" -> DocB
    [] OTHER -> NULL

\* mutant: the depth of the previous walk is kept
LoadReset_KeepsDepth(p) ==
  [p EXCEPT !.parent = xmlRootNode(p.current_doc),
            !.node_cursor = NULL,
            !.attr_cursor = NULL]

\* lines 208-211: the cursor of a document that parsed
LoadReset(p) ==
  [p EXCEPT !.parent = xmlRootNode(p.current_doc),
            !.node_cursor = NULL,
            !.attr_cursor = NULL,
            !.depth = 0]

xml_reader_load_from_data(p, buffer) ==
  LET cleared == xml_reader_clear(p)
      loaded == [cleared EXCEPT !.current_doc = xmlReadMemory(buffer)]
  IN  IF loaded.current_doc = NULL
      THEN Result(loaded, FALSE)
      ELSE Result(LoadReset(loaded), TRUE)

xml_reader_get_error(p) == p.error_state

(***************************************************************************)
(* xml_reader_read_start_element                                           *)
(***************************************************************************)
\* mutant: the node type is not tested, so a text node named like the
\* argument matches
RECURSIVE FindElement_AnyType(_, _)
FindElement_AnyType(node, element_name) ==
  IF node = NULL THEN NULL
  ELSE IF /\ Tree[node].name # NoStr
          /\ Tree[node].name = element_name
       THEN node
       ELSE FindElement_AnyType(Tree[node].next, element_name)

\* the scan of lines 348-354: the first node of the sibling list starting at
\* node that is an element named element_name, or NULL
RECURSIVE FindElement(_, _)
FindElement(node, element_name) ==
  IF node = NULL THEN NULL
  ELSE IF /\ Tree[node].type = "XML_ELEMENT_NODE"
          /\ Tree[node].name # NoStr
          /\ Tree[node].name = element_name
       THEN node
       ELSE FindElement(Tree[node].next, element_name)

\* lines 342-346: where the scan starts
ScanStart(p) ==
  IF p.node_cursor = NULL
  THEN xmlRootNode(p.current_doc)
  ELSE Tree[p.node_cursor].children

\* lines 358-380: the cursor moves onto the matching node
StartElementMatch(p, node) ==
  LET child == Tree[node].children
  IN  [p EXCEPT !.parent = p.node_cursor,
                !.node_cursor = node,
                !.depth = p.depth + 1,
                !.cursor_value =
                   IF child # NULL /\ xmlNodeIsText(child)
                   THEN xmlNodeGetContent(child)
                   ELSE p.cursor_value,
                !.attr_cursor = Tree[node].properties,
                !.attr_value = NoStr]

\* mutant: the cursor is left on the node the scan started from
StartElementNoMatch_KeepsCursor(p) ==
  [p EXCEPT !.error_state = TRUE,
            !.last_error = XML_READER_ERROR_UNKNOWN_NODE,
            !.parent = IF p.node_cursor = NULL
                       THEN xmlRootNode(p.current_doc)
                       ELSE p.node_cursor,
            !.attr_cursor = NULL]

\* lines 384-392: no node matched
StartElementNoMatch(p) ==
  [p EXCEPT !.error_state = TRUE,
            !.last_error = XML_READER_ERROR_UNKNOWN_NODE,
            !.parent = IF p.node_cursor = NULL
                       THEN xmlRootNode(p.current_doc)
                       ELSE p.node_cursor,
            !.node_cursor = NULL,
            !.attr_cursor = NULL]

\* lines 340-392: the call on a reader that is not in error state
StartElementScan(p, element_name) ==
  LET node == FindElement(ScanStart(p), element_name)
  IN  IF node # NULL
      THEN Result(StartElementMatch(p, node), TRUE)
      ELSE Result(StartElementNoMatch(p), FALSE)

\* mutant: the error state is not consulted
StartElement_Ungated(p, element_name) == StartElementScan(p, element_name)

xml_reader_read_start_element(p, element_name) ==
  IF xml_reader_get_error(p)
  THEN Result(p, FALSE)
  ELSE StartElementScan(p, element_name)

(***************************************************************************)
(* xml_reader_read_end_element; the value returned is whether the          *)
(* "No cursor set" warning was issued (the function itself is void)        *)
(***************************************************************************)
\* mutant: the recovering leave counts as a leave of an open element
EndElementRecover_Decrements(p) ==
  IF p.parent = NULL
  THEN [p EXCEPT !.error_state = FALSE,
                 !.depth = p.depth - 1,
                 !.node_cursor = xmlRootNode(p.current_doc),
                 !.parent = NULL]
  ELSE [p EXCEPT !.error_state = FALSE,
                 !.depth = p.depth - 1,
                 !.node_cursor = p.parent,
                 !.parent = Tree[p.parent].parent]

\* mutant: the recovering leave only drops the error flag
EndElementRecover_FlagOnly(p) ==
  [p EXCEPT !.error_state = FALSE]

\* mutant: the recovering leave restores the cursor but not its parent
EndElementRecover_KeepsParent(p) ==
  IF p.parent = NULL
  THEN [p EXCEPT !.error_state = FALSE,
                 !.node_cursor = xmlRootNode(p.current_doc),
                 !.parent = NULL]
  ELSE [p EXCEPT !.error_state = FALSE,
                 !.node_cursor = p.parent]

\* lines 415-424: leaving after a failed enter
EndElementRecover(p) ==
  IF p.parent = NULL
  THEN [p EXCEPT !.error_state = FALSE,
                 !.node_cursor = xmlRootNode(p.current_doc),
                 !.parent = NULL]
  ELSE [p EXCEPT !.error_state = FALSE,
                 !.node_cursor = p.parent,
                 !.parent = Tree[p.parent].parent]

\* mutant: the parent of the node returned to is not looked up
EndElementNormal_NoGrandparent(p) ==
  [p EXCEPT !.cursor_value = NoStr,
            !.attr_value = NoStr,
            !.depth = p.depth - 1,
            !.node_cursor = IF p.parent = NULL
                            THEN xmlRootNode(p.current_doc)
                            ELSE p.parent,
            !.parent = NULL,
            !.attr_cursor = NULL]

\* mutant: the cached attribute value outlives the leave
EndElementNormal_KeepsAttribute(p) ==
  [p EXCEPT !.cursor_value = NoStr,
            !.depth = p.depth - 1,
            !.node_cursor = IF p.parent = NULL
                            THEN xmlRootNode(p.current_doc)
                            ELSE p.parent,
            !.parent = IF p.parent # NULL THEN Tree[p.parent].parent ELSE NULL,
            !.attr_cursor = NULL]

\* lines 433-453: leaving the element the cursor is on
EndElementNormal(p) ==
  [p EXCEPT !.cursor_value = NoStr,
            !.attr_value = NoStr,
            !.depth = p.depth - 1,
            !.node_cursor = IF p.parent = NULL
                            THEN xmlRootNode(p.current_doc)
                            ELSE p.parent,
            !.parent = IF p.parent # NULL THEN Tree[p.parent].parent ELSE NULL,
            !.attr_cursor = NULL]

\* mutant: the "No cursor set" check is missing
EndElement_Unchecked(p) ==
  IF xml_reader_get_error(p)
  THEN Result(EndElementRecover(p), FALSE)
  ELSE Result(EndElementNormal(p), FALSE)

xml_reader_read_end_element(p) ==
  IF xml_reader_get_error(p)
  THEN Result(EndElementRecover(p), FALSE)
  ELSE IF p.node_cursor = NULL
       THEN Result(p, TRUE)
       ELSE Result(EndElementNormal(p), FALSE)

(***************************************************************************)
(* The readers                                                             *)
(***************************************************************************)
xml_reader_get_element_name(p) ==
  IF xml_reader_get_error(p) THEN NoStr
  ELSE IF p.node_cursor # NULL THEN Tree[p.node_cursor].name
  ELSE NoStr

xml_reader_get_element_value(p) ==
  IF xml_reader_get_error(p) THEN NoStr
  ELSE p.cursor_value

xml_reader_has_attributes(p) ==
  IF xml_reader_get_error(p) THEN FALSE
  ELSE IF p.node_cursor = NULL THEN FALSE
  ELSE Tree[p.node_cursor].properties # NULL

RECURSIVE CountAttributes(_)
CountAttributes(attr) ==
  IF attr = NULL THEN 0 ELSE 1 + CountAttributes(Attr[attr].next)

xml_reader_count_attributes(p) ==
  IF xml_reader_get_error(p) THEN -1
  ELSE IF p.node_cursor = NULL THEN -1
  ELSE IF ~xml_reader_has_attributes(p) THEN 0
  ELSE CountAttributes(Tree[p.node_cursor].properties)

\* mutant: the reader is gated on the error state like the others
AttributeValue_Gated(p) ==
  IF xml_reader_get_error(p) THEN NoStr ELSE p.attr_value

xml_reader_get_attribute_value(p) == p.attr_value

(***************************************************************************)
(* Attribute selection                                                     *)
(***************************************************************************)
\* lines 605-616: the attribute at position index_ counting from i, or NULL
RECURSIVE FindAttributePos(_, _, _)
FindAttributePos(attr, i, index_) ==
  IF attr = NULL THEN NULL
  ELSE IF i = index_ THEN attr
  ELSE FindAttributePos(Attr[attr].next, i + 1, index_)

\* lines 611-612 and 678-679
SelectAttribute(p, attr) ==
  [p EXCEPT !.attr_cursor = attr,
            !.attr_value = xmlGetProp(p.node_cursor, Attr[attr].name)]

xml_reader_read_attribute_pos(p, index_) ==
  IF xml_reader_get_error(p) THEN Result(p, FALSE)
  ELSE IF p.node_cursor = NULL THEN Result(p, FALSE)
  ELSE IF ~xml_reader_has_attributes(p) THEN Result(p, FALSE)
  ELSE LET attr == FindAttributePos(Tree[p.node_cursor].properties, 0, index_)
       IN  IF attr # NULL
           THEN Result(SelectAttribute(p, attr), TRUE)
           ELSE Result(p, FALSE)

\* lines 672-683: the first attribute of the list named attribute_name
FindAttributeName(attr, attribute_name) == xmlHasProp(attr, attribute_name)

\* mutant: a miss drops the previous selection
AttributeNameMiss_Clears(p) ==
  [p EXCEPT !.attr_cursor = NULL, !.attr_value = NoStr]

\* line 685: no attribute has the name
AttributeNameMiss(p) == p

xml_reader_read_attribute_name(p, attribute_name) ==
  IF p.node_cursor = NULL THEN Result(p, FALSE)
  ELSE IF ~xml_reader_has_attributes(p) THEN Result(p, FALSE)
  ELSE LET attr == FindAttributeName(Tree[p.node_cursor].properties,
                                     attribute_name)
       IN  IF attr # NULL
           THEN Result(SelectAttribute(p, attr), TRUE)
           ELSE Result(AttributeNameMiss(p), FALSE)

(***************************************************************************)
(* The reader and its caller.  priv is the structure; call is the last     *)
(* call made with its argument and result, before the structure as that    *)
(* call found it.  open holds one frame per successful enter that no leave *)
(* has closed yet (the cursor, depth and element name the enter started    *)
(* from); closed is the frame the last call closed, if it closed one.      *)
(***************************************************************************)
Frame(p) ==
  [node |-> p.node_cursor, depth |-> p.depth,
   name |-> xml_reader_get_element_name(p)]

Init ==
  /\ priv = xml_reader_init
  /\ call = [op |-> "new", arg |-> NoStr, ret |-> TRUE]
  /\ before = xml_reader_init
  /\ open = <<>>
  /\ closed = <<>>

Called(op, arg, r) ==
  /\ priv' = r.priv
  /\ call' = [op |-> op, arg |-> arg, ret |-> r.ret]
  /\ before' = priv

\* every function but the loaders dereferences current_doc or a node of it:
\* a reader that holds no document is only ever loaded
HasDocument == priv.current_doc # NULL

Load(buffer) ==
  /\ Called("load", buffer, xml_reader_load_from_data(priv, buffer))
  /\ open' = <<>>
  /\ closed' = <<>>

StartElement(element_name) ==
  /\ HasDocument
  /\ LET r == xml_reader_read_start_element(priv, element_name)
     IN  /\ Called("enter", element_name, r)
         /\ open' = IF r.ret THEN Append(open, Frame(priv)) ELSE open
  /\ closed' = <<>>

\* the leave that takes the normal path (lines 433-453)
LeavesNormally(p) == ~xml_reader_get_error(p) /\ p.node_cursor # NULL

EndElement ==
  /\ HasDocument
  /\ LeavesNormally(priv) => priv.depth > -MaxUnderflow
  /\ Called("leave", NoStr, xml_reader_read_end_element(priv))
  /\ IF LeavesNormally(priv) /\ open # <<>>
     THEN /\ open' = SubSeq(open, 1, Len(open) - 1)
          /\ closed' = <<open[Len(open)]>>
     ELSE /\ open' = open
          /\ closed' = <<>>

ReadAttributePos(index_) ==
  /\ HasDocument
  /\ Called("attribute_pos", index_, xml_reader_read_attribute_pos(priv, index_))
  /\ closed' = <<>>
  /\ UNCHANGED open

ReadAttributeName(attribute_name) ==
  /\ HasDocument
  /\ Called("attribute_name", attribute_name,
            xml_reader_read_attribute_name(priv, attribute_name))
  /\ closed' = <<>>
  /\ UNCHANGED open

Next ==
  \/ \E buffer \in Buffers : Load(buffer)
  \/ \E element_name \in ElementNames : StartElement(element_name)
  \/ EndElement
  \/ \E index_ \in Indexes : ReadAttributePos(index_)
  \/ \E attribute_name \in AttributeNames : ReadAttributeName(attribute_name)

Spec == Init /\ [][Next]_vars

(***************************************************************************)
(* Properties                                                              *)
(***************************************************************************)
RootOf(p) == xmlRootNode(p.current_doc)

Loaded == call.op = "load" /\ call.ret

\* C1: after any successful load, whatever state the reader was in before,
\* the reader is not in error state and entering the new document's root
\* element by name succeeds as the next call.
C1_LoadClearsError ==
  Loaded =>
    /\ ~xml_reader_get_error(priv)
    /\ xml_reader_read_start_element(priv, Tree[RootOf(priv)].name).ret

\* the failed enter and the leave that follows it, from structure p
FailThenLeave(p, element_name) ==
  xml_reader_read_end_element(
    xml_reader_read_start_element(p, element_name).priv).priv

Fails(p, element_name) == ~xml_reader_read_start_element(p, element_name).ret

SameCursor(p, q) ==
  /\ q.node_cursor = p.node_cursor
  /\ xml_reader_get_element_name(q) = xml_reader_get_element_name(p)
  /\ xml_reader_get_element_value(q) = xml_reader_get_element_value(p)

\* C2 as stated: from every non-error state of a loaded document, positioned
\* or not, a failed enter followed immediately by a leave clears the error
\* and leaves cursor (absent if it was absent), name, value and depth as
\* they were.
C2_RecoveryRestoresEverywhere ==
  (HasDocument /\ ~xml_reader_get_error(priv)) =>
    \A element_name \in ElementNames :
      Fails(priv, element_name) =>
        LET q == FailThenLeave(priv, element_name)
        IN  /\ ~xml_reader_get_error(q)
            /\ q.depth = priv.depth
            /\ SameCursor(priv, q)

\* C2 amended: from a state where the cursor is positioned on a node the
\* failed enter and the leave restore cursor, name, value and depth; from the
\* unpositioned state they clear the error and keep depth, and the cursor
\* ends on the document's root node.
C2_RecoveryRestoresPositioned ==
  (HasDocument /\ ~xml_reader_get_error(priv)) =>
    \A element_name \in ElementNames :
      Fails(priv, element_name) =>
        LET q == FailThenLeave(priv, element_name)
        IN  /\ ~xml_reader_get_error(q)
            /\ q.depth = priv.depth
            /\ IF priv.node_cursor # NULL
               THEN SameCursor(priv, q)
               ELSE /\ q.node_cursor = RootOf(priv)
                    /\ xml_reader_get_element_value(q)
                         = xml_reader_get_element_value(priv)

\* C2 witness: a leave has just recovered a failed enter made two levels
\* deep, and the cursor is back on the node the enter was made from.
C2_Witness ==
  /\ call.op = "leave"
  /\ before.error_state
  /\ before.last_error = XML_READER_ERROR_UNKNOWN_NODE
  /\ priv.depth = 2
  /\ priv.node_cursor = before.parent
  /\ ~priv.error_state

LeadingText(node) ==
  LET child == Tree[node].children
  IN  IF child # NULL /\ Tree[child].type = "XML_TEXT_NODE"
      THEN Tree[child].content
      ELSE NoStr

\* C4: after every successful enter, current_element_value() is the text of
\* the entered node's first child when that is a text node, and nothing
\* otherwise, whatever was cached before.
C4_ValueIsOfEnteredNode ==
  (call.op = "enter" /\ call.ret) =>
    xml_reader_get_element_value(priv) = LeadingText(priv.node_cursor)

\* C5: on a freshly loaded document with root R, enter(R) as the first call
\* succeeds with the cursor on the root at depth 1, and enter(X), X # R, as
\* the first call fails with error kind UnknownNode and depth 0.
C5_RootFirst ==
  Loaded =>
    \A element_name \in ElementNames :
      LET r == xml_reader_read_start_element(priv, element_name)
      IN  IF element_name = Tree[RootOf(priv)].name
          THEN /\ r.ret
               /\ r.priv.node_cursor = RootOf(priv)
               /\ r.priv.depth = 1
          ELSE /\ ~r.ret
               /\ r.priv.error_state
               /\ r.priv.last_error = XML_READER_ERROR_UNKNOWN_NODE
               /\ r.priv.depth = 0

\* C6: after a document is loaded over another one, depth is 0, no node is
\* current, name, value and attribute value all read as nothing and no
\* attribute is selected, whatever the state before the load.
C6_ReloadIsolation ==
  (Loaded /\ before.current_doc # NULL) =>
    /\ priv.depth = 0
    /\ priv.node_cursor = NULL
    /\ priv.attr_cursor = NULL
    /\ xml_reader_get_element_name(priv) = NoStr
    /\ xml_reader_get_element_value(priv) = NoStr
    /\ xml_reader_get_attribute_value(priv) = NoStr

\* C6 witness: the load replaced a document whose cursor was two levels deep
\* with a cached text and a selected attribute.
C6_Witness ==
  /\ Loaded
  /\ before.current_doc # NULL
  /\ before.depth = 2
  /\ before.node_cursor # NULL
  /\ before.cursor_value # NoStr
  /\ before.attr_cursor # NULL
  /\ before.attr_value # NoStr

\* the attributes of node, in document order
RECURSIVE AttrList(_)
AttrList(attr) ==
  IF attr = NULL THEN <<>> ELSE <<attr>> \o AttrList(Attr[attr].next)

AttrsOf(node) == AttrList(Tree[node].properties)

Named(node, name) ==
  {i \in 1 .. Len(AttrsOf(node)) : Attr[AttrsOf(node)[i]].name = name}

\* C7: with the cursor on a node, selecting an attribute by a name the node
\* does not have fails and leaves the selected attribute and
\* current_attribute_value() as they were; by a name it has, succeeds and
\* makes both those of the (first) attribute of that name.
C7_NameMissPreserves ==
  (call.op = "attribute_name" /\ before.node_cursor # NULL
     /\ ~before.error_state) =>
    LET hits == Named(before.node_cursor, call.arg)
    IN  IF hits = {}
        THEN /\ ~call.ret
             /\ priv.attr_cursor = before.attr_cursor
             /\ xml_reader_get_attribute_value(priv)
                  = xml_reader_get_attribute_value(before)
        ELSE /\ call.ret
             /\ \E i \in hits :
                  /\ \A j \in hits : i <= j
                  /\ priv.attr_cursor = AttrsOf(before.node_cursor)[i]
             /\ xml_reader_get_attribute_value(priv)
                  = Attr[priv.attr_cursor].value

\* C7 witness: a selection by an absent name was made on an element while
\* another attribute was selected, and that selection is still there.
C7_Witness ==
  /\ call.op = "attribute_name"
  /\ ~call.ret
  /\ before.node_cursor # NULL
  /\ Tree[before.node_cursor].properties # NULL
  /\ before.attr_value # NoStr
  /\ priv.attr_value = before.attr_value

\* C8: in error state no node is current and every gated reader fails: name
\* and value read as nothing, has_attributes is false, the count is -1 and
\* both attribute selections fail.
C8_ErrorGatesReaders ==
  xml_reader_get_error(priv) =>
    /\ priv.node_cursor = NULL
    /\ xml_reader_get_element_name(priv) = NoStr
    /\ xml_reader_get_element_value(priv) = NoStr
    /\ ~xml_reader_has_attributes(priv)
    /\ xml_reader_count_attributes(priv) = -1
    /\ \A index_ \in Indexes :
         ~xml_reader_read_attribute_pos(priv, index_).ret
    /\ \A attribute_name \in AttributeNames :
         ~xml_reader_read_attribute_name(priv, attribute_name).ret

\* C8 witness: an enter has failed on an element that has attributes and a
\* cached text, which the readers now withhold.
C8_Witness ==
  /\ xml_reader_get_error(priv)
  /\ call.op = "enter"
  /\ ~before.error_state
  /\ before.node_cursor # NULL
  /\ Tree[before.node_cursor].properties # NULL
  /\ priv.cursor_value # NoStr

\* C9: on a document whose root is "book", an enter that fails as the first
\* call sets the error state and makes current_element_name() read as
\* nothing; the leave that follows clears the error and leaves the cursor on
\* the root, so current_element_name() reads "book".
C9_FirstFailRecoversToRoot ==
  (Loaded /\ Tree[RootOf(priv)].name = "book") =>
    \A element_name \in ElementNames :
      LET r == xml_reader_read_start_element(priv, element_name)
          q == xml_reader_read_end_element(r.priv).priv
      IN  ~r.ret =>
            /\ xml_reader_get_error(r.priv)
            /\ xml_reader_get_element_name(r.priv) = NoStr
            /\ ~xml_reader_get_error(q)
            /\ q.node_cursor = RootOf(priv)
            /\ xml_reader_get_element_name(q) = "book"

\* C9 witness: "missing" was entered first on the book document and failed,
\* and the leave after it has put the cursor on <book> at depth 0.
C9_Witness ==
  /\ call.op = "leave"
  /\ before.error_state
  /\ before.depth = 0
  /\ before.parent = RootOf(before)
  /\ priv.current_doc = DocA
  /\ xml_reader_get_element_name(priv) = "book"
  /\ priv.depth = 0

\* C10: an enter made in error state fails and leaves the whole structure
\* (cursor, parent, depth, error kind, cached text and attribute) as it was,
\* whatever the name.
C10_EnterInErrorIsNoOp ==
  (call.op = "enter" /\ before.error_state) =>
    /\ ~call.ret
    /\ priv = before

\* C10 witness: an enter was made in error state with a name the scan would
\* have matched.
C10_Witness ==
  /\ call.op = "enter"
  /\ before.error_state
  /\ FindElement(ScanStart(before), call.arg) # NULL
  /\ priv = before


\* C11: a leave made with no error set and no node current issues the
\* "No cursor set" warning and changes nothing: depth, cursor, parent, error
\* flag and cached values are as they were.
C11_LeaveWithoutCursorIsNoOp ==
  (call.op = "leave" /\ ~before.error_state /\ before.node_cursor = NULL) =>
    /\ call.ret
    /\ priv = before

\* C11 witness: a leave was made on a loaded document before any enter.
C11_Witness ==
  /\ call.op = "leave"
  /\ ~before.error_state
  /\ before.node_cursor = NULL
  /\ before.current_doc # NULL
  /\ before.parent = RootOf(before)
  /\ call.ret

C13_PositionSelectsIth ==
  (call.op = "attribute_pos" /\ ~before.error_state
     /\ before.node_cursor # NULL) =>
    LET n == xml_reader_count_attributes(before)
        i == call.arg
    IN  IF 0 <= i /\ i < n
        THEN /\ call.ret
             /\ xml_reader_get_attribute_value(priv)
                  = Attr[AttrsOf(before.node_cursor)[i + 1]].value
        ELSE /\ ~call.ret
             /\ xml_reader_get_attribute_value(priv)
                  = xml_reader_get_attribute_value(before)


C15_DepthCountsOpenElements ==
  HasDocument =>
    /\ priv.depth >= 0
    /\ priv.depth = Len(open)


\* the direct children of node that are elements named name; node numbers
\* follow document order
ChildElements(node, name) ==
  {m \in DOMAIN Tree : /\ Tree[m].parent = node
                       /\ Tree[m].type = "XML_ELEMENT_NODE"
                       /\ Tree[m].name = name}

\* C16: with the cursor on a node, enter(name) selects the first direct
\* child, in document order, that is an element named exactly name (text
\* children, other elements, later matches and deeper descendants are never
\* selected) and fails, setting the error state, when no direct child
\* matches.
C16_EnterSelectsFirstChild ==
  (call.op = "enter" /\ ~before.error_state /\ before.node_cursor # NULL) =>
    LET matches == ChildElements(before.node_cursor, call.arg)
    IN  IF matches = {}
        THEN /\ ~call.ret
             /\ xml_reader_get_error(priv)
        ELSE /\ call.ret
             /\ priv.node_cursor \in matches
             /\ \A m \in matches : priv.node_cursor <= m

\* C16 witness: "note" was entered from <book>, which has an earlier
\* grandchild and a later child of that name, and "author", of which it has
\* two children, can be entered from there only as the first one; the cursor
\* is on the child <note>.
C16_Witness ==
  /\ call.op = "enter"
  /\ call.ret
  /\ call.arg = "note"
  /\ before.node_cursor = 2
  /\ priv.node_cursor = 13
  /\ Cardinality(ChildElements(2, "author")) = 2
  /\ ChildElements(6, "note") = {8}


\* a call that selected an attribute
Selected ==
  call.op \in {"attribute_pos", "attribute_name"} /\ call.ret

\* C17: after every successful enter and every normal-path leave
\* current_attribute_value() returns nothing, and it goes on returning
\* nothing until a selection by position or by name succeeds.
C17_MoveClearsAttributeValue ==
  /\ ((call.op = "enter" /\ call.ret)
        \/ (call.op = "leave" /\ LeavesNormally(before))) =>
       xml_reader_get_attribute_value(priv) = NoStr
  /\ (xml_reader_get_attribute_value(before) = NoStr /\ ~Selected) =>
       xml_reader_get_attribute_value(priv) = NoStr

\* C17 witness: a normal-path leave was made while an attribute value was
\* cached, and the value is gone.
C17_Witness ==
  /\ call.op = "leave"
  /\ LeavesNormally(before)
  /\ before.attr_value # NoStr
  /\ xml_reader_get_attribute_value(priv) = NoStr


Positioned(p) ==
  p.current_doc # NULL /\ ~xml_reader_get_error(p) /\ p.node_cursor # NULL

\* the parent of node in the Document Tree: none for a top-level node
TreeParent(p, node) ==
  IF Tree[node].parent = p.current_doc THEN NULL ELSE Tree[node].parent

\* C18 as stated: whenever a node is current and no error is set, parent is
\* that node's parent in the Document Tree (absent for the root element), and
\* each normal-path leave moves the cursor to the tree parent of the node
\* being left.
C18_ParentIsTreeParent ==
  /\ Positioned(priv) =>
       priv.parent = TreeParent(priv, priv.node_cursor)
  /\ (call.op = "leave" /\ LeavesNormally(before)) =>
       priv.node_cursor = TreeParent(before, before.node_cursor)

\* C18 amended: whenever a node is current and no error is set, parent is
\* the node's parent as the tree links it (the document node, for a
\* top-level node) or, for a top-level node only, absent; a normal-path leave
\* moves the cursor to that linked parent when parent is present and leaves
\* it on the root node when parent is absent.
C18_ParentIsLinkedParentOrAbsent ==
  /\ Positioned(priv) =>
       \/ priv.parent = Tree[priv.node_cursor].parent
       \/ /\ priv.parent = NULL
          /\ Tree[priv.node_cursor].parent = priv.current_doc
  /\ (call.op = "leave" /\ LeavesNormally(before)) =>
       priv.node_cursor = IF before.parent # NULL
                          THEN Tree[before.node_cursor].parent
                          ELSE RootOf(before)

\* C18 witness: a leave has recovered a failed enter made three levels deep
\* and parent is again the parent of the node returned to.
C18_Witness ==
  /\ call.op = "leave"
  /\ before.error_state
  /\ priv.node_cursor = 8
  /\ priv.parent = 6
  /\ priv.depth = 3


\* the document node above node
RECURSIVE DocumentOf(_)
DocumentOf(node) ==
  IF Tree[node].parent = NULL THEN node ELSE DocumentOf(Tree[node].parent)

\* node belongs to the tree the reader holds
InHeldTree(p, node) ==
  p.current_doc # NULL /\ DocumentOf(node) = p.current_doc

\* attr is an attribute of a node of the tree the reader holds
AttrInHeldTree(p, attr) ==
  \E node \in DOMAIN Tree :
    /\ InHeldTree(p, node)
    /\ \E i \in 1 .. Len(AttrsOf(node)) : AttrsOf(node)[i] = attr

\* C19: in every state, node_cursor, parent and attr_cursor, when not NULL,
\* point into the Document Tree the reader holds and never into one that was
\* released, also after a load whose parse fails.
C19_PointersIntoHeldTree ==
  /\ priv.node_cursor # NULL => InHeldTree(priv, priv.node_cursor)
  /\ priv.parent # NULL => InHeldTree(priv, priv.parent)
  /\ priv.attr_cursor # NULL => AttrInHeldTree(priv, priv.attr_cursor)


\* C20: whenever a leave (closing a walk, or recovering a failed enter) has
\* brought the reader to depth 0 with no error set, entering the root
\* element by name succeeds as the next call and puts the cursor on the root
\* at depth 1, as the first call after a load does.
C20_RootCanBeEnteredAgain ==
  (call.op = "leave" /\ ~call.ret /\ ~xml_reader_get_error(priv)
     /\ priv.depth = 0) =>
    LET r == xml_reader_read_start_element(priv, Tree[RootOf(priv)].name)
    IN  /\ r.ret
        /\ r.priv.node_cursor = RootOf(priv)
        /\ r.priv.depth = 1

====
